---- MODULE Spec2Model ----
(***************************************************************************)
(* AlphaInsure AI engine: the three analyzers of ai_service.py             *)
(* (DamageDetectionModel, RiskScoringModel, FraudDetectionModel), the      *)
(* AIServiceEngine that fronts them and the Flask handlers of app.py.      *)
(*                                                                         *)
(* Numbers.  Python floats are modelled exactly on the inputs used here:   *)
(*   - a feature is a rational [n, d] (d > 0), compared by cross product;  *)
(*   - a backend probability is an integer in 1/10000 (0 .. 10000);        *)
(*   - a reported fraudProbability is an integer in 1/1000 (round(p, 3));  *)
(*   - a timestamp is an integer number of hours;                          *)
(*   - a class-probability row holds five integers in 1/1000.              *)
(* The scoring backends are opaque: what a backend answers for a call is   *)
(* part of the call's input, chosen from sample sets.                      *)
(***************************************************************************)
EXTENDS Integers, Sequences, FiniteSets, TLC

VARIABLES
    phase,      \* "idle": no call in progress; "done": a call has returned
    call,       \* the operation called and its input (with the backends' answers)
    result,     \* what the operation returned
    invoked     \* the engine/analyzer operations the call invoked, in order

vars == <<phase, call, result, invoked>>

----------------------------------------------------------------------------
(* Rationals *)

Rat(n, d) == [n |-> n, d |-> d]
RatLt(a, b) == a.n * b.d < b.n * a.d
RatGt(a, b) == RatLt(b, a)
RatEq(a, b) == a.n * b.d = b.n * a.d
RatLe(a, b) == ~RatLt(b, a)
RatMin(a, b) == IF RatLt(b, a) THEN b ELSE a

Range(s) == {s[i] : i \in DOMAIN s}

----------------------------------------------------------------------------
(* Claim records (the argument of detect_fraud) *)

\* A date field: absent, present but not an ISO timestamp, or a timestamp
\* (t hours) without ("naive") or with ("aware") a UTC offset.
NoDate == [kind |-> "missing", t |-> 0]
BadDate == [kind |-> "unparseable", t |-> 0]
Stamp(kind, t) == [kind |-> kind, t |-> t]

IncidentDates == {NoDate, BadDate, Stamp("aware", 0), Stamp("naive", 0)}

\* Reporting 5 days and 12 hours before the incident, then 0, 7, 15 (and 12
\* hours), 16 and 45 days after it.
ReportedOffsets == {-120, -12, 0, 168, 372, 384, 1080}

ReportedDates ==
    {NoDate, BadDate, Stamp("naive", 168)}
        \cup {Stamp("aware", t) : t \in ReportedOffsets}

\* claimAmount: absent, a number, or a value that is not a number.
NoAmount == [kind |-> "missing", v |-> 0]
BadAmount == [kind |-> "nan", v |-> 0]
Amounts ==
    {NoAmount, BadAmount} \cup {[kind |-> "num", v |-> a] : a \in {50000, 80000, 80001, 150000}}

\* documents: absent, a list of n entries, or a value without a length.
NoDocs == [kind |-> "missing", n |-> 0]
BadDocs == [kind |-> "nolen", n |-> 0]
Documents == {NoDocs, BadDocs} \cup {[kind |-> "list", n |-> k] : k \in {1, 2, 12}}

\* satelliteEvidence: absent, not a record, an empty record, a record with
\* preDisasterImagery, a record with postDisasterImagery only.
SatelliteEvidences == {"missing", "notdict", "empty", "pre", "postonly"}

\* A value that is no key/value record: None ("null") or a truthy scalar.
NonRecordClaim(kind) ==
    [kind |-> kind, incidentDate |-> NoDate, reportedDate |-> NoDate,
     claimAmount |-> NoAmount, documents |-> NoDocs, claimType |-> "missing",
     satelliteEvidence |-> "missing"]

\* claimType: absent (read as 'other') or a string.
ClaimTypes == {"missing", "fire"}

ClaimRecords ==
    [kind : {"dict"}, incidentDate : IncidentDates, reportedDate : ReportedDates,
     claimAmount : Amounts, documents : Documents, claimType : ClaimTypes,
     satelliteEvidence : SatelliteEvidences]

\* The record printed by the module's self test (7-day delay, 50000, one
\* document, flood, satellite evidence with preDisasterImagery).
ExampleClaim ==
    [kind |-> "dict", incidentDate |-> Stamp("aware", 0),
     reportedDate |-> Stamp("aware", 168),
     claimAmount |-> [kind |-> "num", v |-> 50000],
     documents |-> [kind |-> "list", n |-> 1], claimType |-> "flood",
     satelliteEvidence |-> "pre"]

\* `not claim_data`: None and the empty record are falsy.
IsEmptyClaim(c) ==
    /\ c.kind = "dict"
    /\ c.incidentDate.kind = "missing" /\ c.reportedDate.kind = "missing"
    /\ c.claimAmount.kind = "missing" /\ c.documents.kind = "missing"
    /\ c.claimType = "missing" /\ c.satelliteEvidence = "missing"

Falsy(c) == c.kind = "null" \/ IsEmptyClaim(c)

\* What the probabilistic classifier answers: raises, or P(fraud) in 1/10000.
\* No sample ends in 5, so round(p, 3) never meets a tie.
FraudProbSamples == {0, 4000, 4004, 7000, 7004, 10000}
BackendRaises == [raises |-> TRUE, p |-> 0]
FraudBackends == {BackendRaises} \cup {[raises |-> FALSE, p |-> q] : q \in FraudProbSamples}

----------------------------------------------------------------------------
(* FraudDetectionModel *)

ParsesAsDate(d) == d.kind \in {"naive", "aware"}

\* timedelta.days: whole days, rounded down.
DelayDays(incident, report) == (report.t - incident.t) \div 24

\* Faulty variant: a documents value without a length is counted as no document.
FeaturesRaise_DocsUnchecked(c) ==
    \/ c.kind # "dict"
    \/ ~ParsesAsDate(c.incidentDate)
    \/ ~ParsesAsDate(c.reportedDate)
    \/ c.incidentDate.kind # c.reportedDate.kind
    \/ c.claimAmount.kind = "nan"
    \/ c.satelliteEvidence = "notdict"

\* extract_fraud_features raises when a date does not parse, when the two
\* dates cannot be subtracted, or when a field has the wrong type.
FeaturesRaise(c) ==
    \/ c.kind # "dict"
    \/ ~ParsesAsDate(c.incidentDate)
    \/ ~ParsesAsDate(c.reportedDate)
    \/ c.incidentDate.kind # c.reportedDate.kind
    \/ c.claimAmount.kind = "nan"
    \/ c.documents.kind = "nolen"
    \/ c.satelliteEvidence = "notdict"

HasSatelliteEvidence(c) == c.satelliteEvidence = "pre"

extract_fraud_features(c) ==
    IF FeaturesRaise(c) THEN [raised |-> TRUE, features |-> <<>>]
    ELSE [raised |-> FALSE,
          features |->
            << RatMin(Rat(DelayDays(c.incidentDate, c.reportedDate), 30), Rat(1, 1)),
               RatMin(Rat(c.claimAmount.v, 100000), Rat(1, 1)),
               RatMin(Rat(c.documents.n, 10), Rat(1, 1)),
               IF c.claimType \in {"flood", "other", "missing"} THEN Rat(1, 1) ELSE Rat(0, 1),
               IF HasSatelliteEvidence(c) THEN Rat(1, 1) ELSE Rat(0, 1),
               Rat(1, 2),
               Rat(3, 10), Rat(4, 10), Rat(2, 10), Rat(6, 10), Rat(1, 10), Rat(7, 10) >>]

\* Faulty variant: the reporting-delay threshold is met at 15 days.
identify_risk_factors_DelayAt15(features) ==
    (IF RatLe(Rat(1, 2), features[1]) THEN <<"delayed_reporting">> ELSE <<>>)
    \o (IF RatGt(features[2], Rat(8, 10)) THEN <<"high_claim_amount">> ELSE <<>>)
    \o (IF RatLt(features[3], Rat(2, 10)) THEN <<"insufficient_documentation">> ELSE <<>>)
    \o (IF RatEq(features[5], Rat(0, 1)) THEN <<"no_satellite_evidence">> ELSE <<>>)

identify_risk_factors(features) ==
    (IF RatGt(features[1], Rat(1, 2)) THEN <<"delayed_reporting">> ELSE <<>>)
    \o (IF RatGt(features[2], Rat(8, 10)) THEN <<"high_claim_amount">> ELSE <<>>)
    \o (IF RatLt(features[3], Rat(2, 10)) THEN <<"insufficient_documentation">> ELSE <<>>)
    \o (IF RatEq(features[5], Rat(0, 1)) THEN <<"no_satellite_evidence">> ELSE <<>>)

\* round(p, 3) of a probability in 1/10000, in 1/1000 (ties to even).
Round3(p) ==
    LET q == p \div 10
        r == p % 10
    IN  IF r < 5 THEN q
        ELSE IF r > 5 THEN q + 1
        ELSE IF q % 2 = 0 THEN q ELSE q + 1

RiskLevelOf(p) ==
    IF p > 7000 THEN "high" ELSE IF p > 4000 THEN "medium" ELSE "low"

FraudFallback ==
    [riskLevel |-> "medium", fraudProbability |-> 500,
     riskFactors |-> <<"analysis_error">>, flaggedForReview |-> TRUE]

\* Faulty variant: every claim above the low tier is flagged.
FraudDetectionModel_detect_fraud_FlagAboveLow(c, backend) ==
    LET x == extract_fraud_features(c)
    IN  IF x.raised \/ backend.raises THEN FraudFallback
        ELSE [riskLevel |-> RiskLevelOf(backend.p),
              fraudProbability |-> Round3(backend.p),
              riskFactors |-> identify_risk_factors(x.features),
              flaggedForReview |-> (RiskLevelOf(backend.p) # "low")]

FraudDetectionModel_detect_fraud(c, backend) ==
    LET x == extract_fraud_features(c)
    IN  IF x.raised \/ backend.raises THEN FraudFallback
        ELSE [riskLevel |-> RiskLevelOf(backend.p),
              fraudProbability |-> Round3(backend.p),
              riskFactors |-> identify_risk_factors(x.features),
              flaggedForReview |-> (RiskLevelOf(backend.p) = "high")]

----------------------------------------------------------------------------
(* DamageDetectionModel *)

damage_classes ==
    <<"no_damage", "minor_damage", "moderate_damage", "severe_damage", "destroyed">>

\* An image argument: None, a path or array cv2 cannot turn into an image,
\* or a readable image.
Images == {"none", "unreadable", "ok"}

\* preprocess_image returns None (FALSE here) when it cannot produce an image.
preprocess_image(image) == image = "ok"

\* Class-probability rows of the image-difference backend, in 1/1000.
PredictionRows ==
    { <<1000, 0, 0, 0, 0>>, <<100, 600, 100, 100, 100>>, <<0, 200, 800, 0, 0>>,
      <<0, 0, 200, 800, 0>>, <<0, 0, 0, 100, 900>>, <<400, 400, 200, 0, 0>> }
DiffRows == { <<100, 600, 100, 100, 100>>, <<0, 200, 800, 0, 0>> }

NoPrediction == <<1000, 0, 0, 0, 0>>
DamageBackends ==
    {[raises |-> TRUE, pre |-> NoPrediction, post |-> NoPrediction, diff |-> NoPrediction]}
        \cup [raises : {FALSE}, pre : PredictionRows, post : PredictionRows, diff : DiffRows]

RowMax(row) == CHOOSE m \in Range(row) : \A x \in Range(row) : x <= m

\* np.argmax: the first index (from 0) holding the greatest entry.
ArgMax(row) ==
    (CHOOSE i \in DOMAIN row :
        /\ row[i] = RowMax(row)
        /\ \A j \in DOMAIN row : j < i => row[j] < row[i]) - 1

Max(a, b) == IF a >= b THEN a ELSE b

get_default_result ==
    [damagePercentage |-> 0, damageType |-> <<"analysis_failed">>,
     analysisConfidence |-> 0, aiModelVersion |-> "DamageDetection_v1.0",
     preDisasterClass |-> "unknown", postDisasterClass |-> "unknown",
     estimatedLoss |-> 0]

\* base_property_value * (damage_percentage / 100)
calculate_estimated_loss(damage_percentage) == (300000 * damage_percentage) \div 100

\* max(0, damage_increase / len(damage_classes) * 100), in percent.
DamagePercentage(pre_damage, post_damage) ==
    Max(0, ((post_damage - pre_damage) * 100) \div Len(damage_classes))

\* analysisConfidence is in 1/10 percent.
DamageDetectionModel_detect_damage(pre_image, post_image, backend) ==
    IF ~preprocess_image(pre_image) \/ ~preprocess_image(post_image)
    THEN get_default_result
    ELSE IF backend.raises THEN get_default_result
    ELSE LET pre_damage == ArgMax(backend.pre)
             post_damage == ArgMax(backend.post)
             diff_confidence == RowMax(backend.diff)
             damage_percentage == DamagePercentage(pre_damage, post_damage)
         IN  [damagePercentage |-> damage_percentage,
              damageType |->
                (IF damage_percentage > 20 THEN <<"structural">> ELSE <<>>)
                \o (IF diff_confidence > 700 THEN <<"visible_change">> ELSE <<>>),
              analysisConfidence |->
                (diff_confidence + backend.post[post_damage + 1]) \div 2,
              aiModelVersion |-> "DamageDetection_v1.0",
              preDisasterClass |-> damage_classes[pre_damage + 1],
              postDisasterClass |-> damage_classes[post_damage + 1],
              estimatedLoss |-> calculate_estimated_loss(damage_percentage)]

----------------------------------------------------------------------------
(* RiskScoringModel *)

\* A numeric property field: absent, a number, or a value that is no number.
NoField == [kind |-> "missing", v |-> 0]
BadField == [kind |-> "nan", v |-> 0]
Num(v) == [kind |-> "num", v |-> v]

NonRecordProperty(kind) ==
    [kind |-> kind, elevation |-> NoField, proximityToWater |-> NoField,
     floodZone |-> "missing", yearBuilt |-> NoField]

EmptyProperty == NonRecordProperty("dict")

\* The record of the module's self test.
ExampleProperty ==
    [kind |-> "dict", elevation |-> Num(15), proximityToWater |-> Num(500),
     floodZone |-> "AE", yearBuilt |-> Num(1995)]

PropertyRecords ==
    [kind : {"dict"}, elevation : {NoField, BadField, Num(15)},
     proximityToWater : {NoField, BadField, Num(500)}, floodZone : {"missing", "AE", "X"},
     yearBuilt : {NoField, BadField, Num(1995)}]

IsEmptyProperty(p) ==
    /\ p.kind = "dict"
    /\ p.elevation.kind = "missing" /\ p.proximityToWater.kind = "missing"
    /\ p.floodZone = "missing" /\ p.yearBuilt.kind = "missing"

\* model.feature_importances_: fifteen weights in 1/10000 that sum to 1.  The
\* first has five clear leaders, the second a tie for the fifth place, the
\* third a tie among its three leaders.  No weight ends in 5.
ImportanceSamples ==
    { <<1600, 3000, 2400, 1200, 800, 100, 100, 100, 100, 100, 100, 100, 100, 100, 100>>,
      <<200, 100, 100, 100, 100, 100, 100, 100, 100, 700, 700, 1200, 2000, 2100, 2300>>,
      <<2000, 2000, 2000, 1004, 996, 200, 200, 200, 200, 200, 200, 200, 200, 200, 200>> }

\* np.argsort(importance)[-k:][::-1]: k indices (from 0) of greatest weight,
\* greatest first.  The order among equal weights is the sort's choice, so
\* every such order is an answer.
RECURSIVE TopOrders(_, _, _)
TopOrders(importance, indices, k) ==
    IF k = 0 \/ indices = {} THEN {<<>>}
    ELSE UNION { {<<i>> \o rest : rest \in TopOrders(importance, indices \ {i}, k - 1)} :
                 i \in {j \in indices :
                          \A m \in indices : importance[m + 1] <= importance[j + 1]} }

\* What the regression backend (and the sort of its weights) answers: raises,
\* or a raw score, the feature weights and their five leading indices.
RiskRawSamples == {-5, 37, 120}
RiskBackendRaises ==
    [raises |-> TRUE, raw |-> 0, importance |-> <<>>, top_indices |-> <<>>]
RiskBackends ==
    {RiskBackendRaises}
        \cup UNION { [raises : {FALSE}, raw : RiskRawSamples, importance : {w},
                      top_indices : TopOrders(w, 0..(Len(w) - 1), 5)] :
                     w \in ImportanceSamples }

FieldOr(f, default) == IF f.kind = "missing" THEN default ELSE f.v

\* Faulty variant: elevation is read without a default.
RiskFeaturesRaise_ElevationRequired(p) ==
    \/ p.kind # "dict"
    \/ p.elevation.kind \in {"nan", "missing"}
    \/ p.proximityToWater.kind = "nan"
    \/ p.yearBuilt.kind = "nan"

RiskFeaturesRaise(p) ==
    \/ p.kind # "dict"
    \/ p.elevation.kind = "nan"
    \/ p.proximityToWater.kind = "nan"
    \/ p.yearBuilt.kind = "nan"

\* extract_features on the satellite and weather data analyze_risk passes.
extract_features(p) ==
    IF RiskFeaturesRaise(p) THEN [raised |-> TRUE, features |-> <<>>]
    ELSE [raised |-> FALSE,
          features |->
            << Rat(FieldOr(p.elevation, 0), 1000),
               Rat(FieldOr(p.proximityToWater, 0), 10000),
               IF p.floodZone = "AE" THEN Rat(1, 1) ELSE Rat(0, 1),
               Rat(FieldOr(p.yearBuilt, 2000), 2024),
               Rat(7, 10), Rat(4, 10), Rat(6, 10),
               Rat(25, 50), Rat(60, 100), Rat(15, 100), Rat(3, 10), Rat(2, 10),
               Rat(2, 10), Rat(80, 200), Rat(22, 50) >>]

Min(a, b) == IF a <= b THEN a ELSE b

feature_names ==
    <<"elevation", "water_proximity", "flood_zone", "building_age",
      "vegetation_density", "soil_moisture", "fire_risk", "temperature",
      "humidity", "wind_speed", "precipitation_risk", "storm_probability",
      "historical_events", "avg_precipitation", "avg_temperature">>

\* round(x, 3) of a rational, in 1/1000 (ties to even).
RatRound3(x) ==
    LET q == (x.n * 1000) \div x.d
        r == (x.n * 1000) % x.d
    IN  IF 2 * r < x.d THEN q
        ELSE IF 2 * r > x.d THEN q + 1
        ELSE IF q % 2 = 0 THEN q ELSE q + 1

TopFactor(features, importance, idx) ==
    [factor |-> feature_names[idx + 1],
     importance |-> Round3(importance[idx + 1]),
     value |-> IF idx < Len(features) THEN RatRound3(features[idx + 1]) ELSE 0]

\* Faulty variant: the name is taken at the entry's rank, not at its index.
get_top_risk_factors_NameByRank(features, importance, top_indices) ==
    LET kept == SelectSeq(top_indices, LAMBDA idx : idx < Len(feature_names))
    IN  [r \in DOMAIN kept |->
            [TopFactor(features, importance, kept[r]) EXCEPT !.factor = feature_names[r]]]

get_top_risk_factors(features, importance, top_indices) ==
    LET kept == SelectSeq(top_indices, LAMBDA idx : idx < Len(feature_names))
    IN  [r \in DOMAIN kept |-> TopFactor(features, importance, kept[r])]

RiskFallback ==
    [overallRiskScore |-> 50, confidence |-> 0, topRiskFactors |-> <<>>,
     modelVersion |-> "RiskScoring_v1.0"]

\* Faulty variant: the raw score is reported as it is.
calculate_risk_score_Unclamped(p, backend) ==
    IF extract_features(p).raised \/ backend.raises THEN RiskFallback
    ELSE [overallRiskScore |-> backend.raw, confidence |-> 85,
          topRiskFactors |->
            get_top_risk_factors(extract_features(p).features, backend.importance,
                                 backend.top_indices),
          modelVersion |-> "RiskScoring_v1.0"]

calculate_risk_score(p, backend) ==
    IF extract_features(p).raised \/ backend.raises THEN RiskFallback
    ELSE [overallRiskScore |-> Max(0, Min(100, backend.raw)), confidence |-> 85,
          topRiskFactors |->
            get_top_risk_factors(extract_features(p).features, backend.importance,
                                 backend.top_indices),
          modelVersion |-> "RiskScoring_v1.0"]

----------------------------------------------------------------------------
(* AIServiceEngine *)

\* What np.random.uniform hands analyze_damage: damagePercentage in [10, 80),
\* analysisConfidence in [75, 95) (in 1/10 percent), estimatedLoss in
\* [10000, 150000).
RandomDraws ==
    [pct : {10, 45, 79}, conf : {750, 949}, loss : {10000, 149999}]

Engine_analyze_risk(p, backend) == calculate_risk_score(p, backend)

\* The image arguments are not read.
Engine_analyze_damage(pre_image_url, post_image_url, draw) ==
    [damagePercentage |-> draw.pct, damageType |-> <<"roof_damage", "structural">>,
     analysisConfidence |-> draw.conf, aiModelVersion |-> "DamageDetection_v1.0",
     estimatedLoss |-> draw.loss]

Engine_detect_fraud(c, backend) == FraudDetectionModel_detect_fraud(c, backend)

----------------------------------------------------------------------------
(* Flask handlers (app.py) *)

\* The 'data' value of a batch request: absent (read as {}), null, or a record
\* read as a property (risk), as a pair of image URLs (damage) or as a claim
\* (fraud).  A URL is "none" when its key is absent.
MissingData ==
    [kind |-> "missing", property |-> EmptyProperty, claim |-> NonRecordClaim("dict"),
     preImageUrl |-> "none", postImageUrl |-> "none"]
NullData ==
    [kind |-> "null", property |-> NonRecordProperty("null"),
     claim |-> NonRecordClaim("null"), preImageUrl |-> "none", postImageUrl |-> "none"]
PropertyData(p) == [MissingData EXCEPT !.kind = "dict", !.property = p]
ClaimData(c) == [MissingData EXCEPT !.kind = "dict", !.claim = c]
ImageData(pre, post) ==
    [MissingData EXCEPT !.kind = "dict", !.preImageUrl = pre, !.postImageUrl = post]

\* What the backends and the random generator answer while one request is
\* processed.
Env(fraud, risk, draw) == [fraud |-> fraud, risk |-> risk, draw |-> draw]
FirstDraw == [pct |-> 10, conf |-> 750, loss |-> 10000]
LastDraw == [pct |-> 79, conf |-> 949, loss |-> 149999]
PlainRiskBackend ==
    [raises |-> FALSE, raw |-> 37,
     importance |-> <<1600, 3000, 2400, 1200, 800, 100, 100, 100, 100, 100, 100, 100, 100, 100, 100>>,
     top_indices |-> <<1, 2, 0, 3, 4>>]
PlainEnv == Env([raises |-> FALSE, p |-> 7004], PlainRiskBackend, FirstDraw)

\* A claim whose reportedDate is no timestamp.
BadDateClaim == [ExampleClaim EXCEPT !.reportedDate = BadDate]

\* The bodies of batch requests, without their ids.
BatchItemBodies ==
    { [type |-> "risk_analysis", data |-> PropertyData(ExampleProperty), env |-> PlainEnv],
      [type |-> "risk_analysis", data |-> NullData, env |-> PlainEnv],
      [type |-> "damage_analysis", data |-> ImageData("ok", "ok"), env |-> PlainEnv],
      [type |-> "damage_analysis", data |-> ImageData("ok", "ok"),
       env |-> [PlainEnv EXCEPT !.draw = LastDraw]],
      [type |-> "damage_analysis", data |-> ImageData("ok", "none"), env |-> PlainEnv],
      [type |-> "damage_analysis", data |-> NullData, env |-> PlainEnv],
      [type |-> "fraud_detection", data |-> ClaimData(ExampleClaim), env |-> PlainEnv],
      [type |-> "fraud_detection", data |-> ClaimData(BadDateClaim), env |-> PlainEnv],
      [type |-> "bogus", data |-> MissingData, env |-> PlainEnv],
      [type |-> "none", data |-> MissingData, env |-> PlainEnv] }

RequestIds == {"A", "B"}

\* An entry of 'requests' that is no key/value record (a number, a string).
NonRecordItem ==
    [isDict |-> FALSE, id |-> "none", type |-> "none", data |-> MissingData,
     env |-> PlainEnv]

BatchItems ==
    {NonRecordItem}
        \cup {[isDict |-> TRUE, id |-> i, type |-> b.type, data |-> b.data, env |-> b.env] :
                i \in RequestIds, b \in BatchItemBodies}

\* Batches hold at most MaxBatch requests.
MaxBatch == 3

\* The 'requests' value: absent or null (both falsy), a value that cannot be
\* iterated, or a list.
RequestsValues ==
    {[kind |-> k, items |-> <<>>] : k \in {"missing", "null", "scalar"}}
        \cup {[kind |-> "list", items |-> q] :
                q \in UNION {[1..n -> BatchItems] : n \in 0..MaxBatch}}

\* Faulty variant: an analyzer's fallback result is reported as a failure.
Entry_FallbackFails(req, res) ==
    [id |-> req.id, type |-> req.type,
     success |->
        /\ "error" \notin DOMAIN res
        /\ ~("riskFactors" \in DOMAIN res /\ res.riskFactors = <<"analysis_error">>)
        /\ ~("confidence" \in DOMAIN res /\ res.confidence = 0),
     result |-> res]

\* The dispatch of one request: the engine operation invoked (if any) and the
\* entry appended to results.
Entry(req, res) ==
    [id |-> req.id, type |-> req.type, success |-> "error" \notin DOMAIN res,
     result |-> res]

DispatchRisk(req) ==
    [invoked |-> <<"analyze_risk">>,
     entry |-> Entry(req, Engine_analyze_risk(req.data.property, req.env.risk))]

DispatchDamage(req) ==
    IF req.data.kind = "null"
    THEN [invoked |-> <<>>,
          entry |-> [id |-> req.id, type |-> req.type, success |-> FALSE,
                     result |-> [error |-> "'NoneType' object has no attribute 'get'"]]]
    ELSE [invoked |-> <<"analyze_damage">>,
          entry |-> Entry(req, Engine_analyze_damage(req.data.preImageUrl,
                                                     req.data.postImageUrl, req.env.draw))]

DispatchFraud(req) ==
    [invoked |-> <<"detect_fraud">>,
     entry |-> Entry(req, Engine_detect_fraud(req.data.claim, req.env.fraud))]

DispatchUnknown(req) ==
    [invoked |-> <<>>, entry |-> Entry(req, [error |-> "Unknown request type"])]

Dispatch(req) ==
    IF req.type = "risk_analysis" THEN DispatchRisk(req)
    ELSE IF req.type = "damage_analysis" THEN DispatchDamage(req)
    ELSE IF req.type = "fraud_detection" THEN DispatchFraud(req)
    ELSE DispatchUnknown(req)

\* The loop over requests_batch from request i on: req.get raises on an entry
\* that is no record, outside the per-request try.
RECURSIVE BatchLoop(_, _, _, _)

\* Faulty variant: each entry is put at the front of results.
RECURSIVE BatchLoop_Prepend(_, _, _, _)
BatchLoop_Prepend(items, i, results, inv) ==
    IF i > Len(items) THEN [raised |-> FALSE, results |-> results, invoked |-> inv]
    ELSE IF ~items[i].isDict THEN [raised |-> TRUE, results |-> results, invoked |-> inv]
    ELSE LET d == Dispatch(items[i])
         IN  BatchLoop_Prepend(items, i + 1, <<d.entry>> \o results, inv \o d.invoked)

BatchLoop(items, i, results, inv) ==
    IF i > Len(items) THEN [raised |-> FALSE, results |-> results, invoked |-> inv]
    ELSE IF ~items[i].isDict THEN [raised |-> TRUE, results |-> results, invoked |-> inv]
    ELSE LET d == Dispatch(items[i])
         IN  BatchLoop(items, i + 1, Append(results, d.entry), inv \o d.invoked)

Rejected(error) == [status |-> 400, success |-> FALSE, error |-> error]
Failed == [status |-> 500, success |-> FALSE, error |-> "exception"]

batch_process(requests) ==
    IF requests.kind \in {"missing", "null"} \/ (requests.kind = "list" /\ requests.items = <<>>)
    THEN [response |-> Rejected("Batch requests required"), invoked |-> <<>>]
    ELSE IF requests.kind = "scalar"
    THEN [response |-> Failed, invoked |-> <<>>]
    ELSE LET run == BatchLoop(requests.items, 1, <<>>, <<>>)
         IN  IF run.raised THEN [response |-> Failed, invoked |-> run.invoked]
             ELSE [response |->
                     [status |-> 200, success |-> TRUE,
                      data |-> [results |-> run.results, processed |-> Len(run.results)]],
                   invoked |-> run.invoked]

\* The preDisasterImagery / postDisasterImagery value of a damage request:
\* absent, null or {} (falsy), a record without imageUrl, a record with
\* imageUrl, or a truthy value that is no record.
Imageries == {"missing", "null", "empty", "nourl", "url", "scalar"}
ImageryFalsy(im) == im \in {"missing", "null", "empty"}
ImageUrl(im) == IF im = "url" THEN "ok" ELSE "none"

analyze_damage(pre_image, post_image, draw) ==
    IF ImageryFalsy(pre_image) \/ ImageryFalsy(post_image)
    THEN [response |-> Rejected("Both pre and post disaster imagery required"),
          invoked |-> <<>>]
    ELSE IF pre_image = "scalar" \/ post_image = "scalar"
    THEN [response |-> Failed, invoked |-> <<>>]
    ELSE [response |->
            [status |-> 200, success |-> TRUE,
             data |-> Engine_analyze_damage(ImageUrl(pre_image), ImageUrl(post_image), draw)],
          invoked |-> <<"analyze_damage">>]

analyze_risk(p, backend) ==
    IF p.kind = "null" \/ IsEmptyProperty(p)
    THEN [response |-> Rejected("Property data required"), invoked |-> <<>>]
    ELSE [response |-> [status |-> 200, success |-> TRUE,
                        data |-> Engine_analyze_risk(p, backend)],
          invoked |-> <<"analyze_risk">>]

detect_fraud(c, backend) ==
    IF Falsy(c)
    THEN [response |-> Rejected("Claim data required"), invoked |-> <<>>]
    ELSE [response |-> [status |-> 200, success |-> TRUE,
                        data |-> Engine_detect_fraud(c, backend)],
          invoked |-> <<"detect_fraud">>]

----------------------------------------------------------------------------
NoCall == [op |-> "none"]
NoResult == [none |-> TRUE]

Init ==
    /\ phase = "idle"
    /\ call = NoCall
    /\ result = NoResult
    /\ invoked = <<>>

\* The caller has its answer; nothing of the call is kept.
Return ==
    /\ phase = "done"
    /\ phase' = "idle"
    /\ call' = NoCall
    /\ result' = NoResult
    /\ invoked' = <<>>

FraudClaims == ClaimRecords \cup {ExampleClaim, NonRecordClaim("null"), NonRecordClaim("scalar")}

\* FraudDetectionModel.detect_fraud(claim_data)
FraudModelCall ==
    /\ phase = "idle"
    /\ \E c \in FraudClaims, backend \in FraudBackends :
        /\ phase' = "done"
        /\ call' = [op |-> "FraudDetectionModel.detect_fraud", claim |-> c,
                    backend |-> backend]
        /\ result' = FraudDetectionModel_detect_fraud(c, backend)
        /\ invoked' = <<"FraudDetectionModel.detect_fraud">>

NextFraud ==
    \/ FraudModelCall
    \/ Return

SpecFraud == Init /\ [][NextFraud]_vars

----------------------------------------------------------------------------
(* Direct calls of the damage operations *)

\* DamageDetectionModel.detect_damage(pre_image, post_image)
DamageModelCall ==
    /\ phase = "idle"
    /\ \E pre \in Images, post \in Images, backend \in DamageBackends :
        /\ phase' = "done"
        /\ call' = [op |-> "DamageDetectionModel.detect_damage", pre_image |-> pre,
                    post_image |-> post, backend |-> backend]
        /\ result' = DamageDetectionModel_detect_damage(pre, post, backend)
        /\ invoked' = <<"DamageDetectionModel.detect_damage">>

\* AIServiceEngine.analyze_damage(pre_image_url, post_image_url); backend is
\* what the engine's damage model would answer for the two images.
EngineDamageCall ==
    /\ phase = "idle"
    /\ \E pre \in Images, post \in Images, backend \in DamageBackends, draw \in RandomDraws :
        /\ phase' = "done"
        /\ call' = [op |-> "AIServiceEngine.analyze_damage", pre_image |-> pre,
                    post_image |-> post, backend |-> backend]
        /\ result' = Engine_analyze_damage(pre, post, draw)
        /\ invoked' = <<"analyze_damage">>

NextDamage ==
    \/ DamageModelCall
    \/ EngineDamageCall
    \/ Return

SpecDamage == Init /\ [][NextDamage]_vars

----------------------------------------------------------------------------
(* Direct calls of the risk operation *)

\* AIServiceEngine.analyze_risk(property_data)
EngineRiskCall ==
    /\ phase = "idle"
    /\ \E p \in PropertyRecords \cup {ExampleProperty, NonRecordProperty("null"),
                                      NonRecordProperty("scalar")},
          backend \in RiskBackends :
        /\ phase' = "done"
        /\ call' = [op |-> "AIServiceEngine.analyze_risk", property |-> p,
                    backend |-> backend]
        /\ result' = Engine_analyze_risk(p, backend)
        /\ invoked' = <<"RiskScoringModel.calculate_risk_score">>

NextRisk ==
    \/ EngineRiskCall
    \/ Return

SpecRisk == Init /\ [][NextRisk]_vars

----------------------------------------------------------------------------
(* The HTTP service *)

RouteClaims ==
    {ExampleClaim, BadDateClaim, NonRecordClaim("dict"), NonRecordClaim("null"),
     NonRecordClaim("scalar"), [ExampleClaim EXCEPT !.satelliteEvidence = "postonly"]}

RouteProperties ==
    PropertyRecords \cup {ExampleProperty, NonRecordProperty("null"), NonRecordProperty("scalar")}

\* POST /api/ai/analyze-risk
RouteAnalyzeRisk ==
    /\ phase = "idle"
    /\ \E p \in RouteProperties, backend \in RiskBackends :
        LET r == analyze_risk(p, backend)
        IN  /\ phase' = "done"
            /\ call' = [op |-> "analyze_risk", property |-> p, backend |-> backend]
            /\ result' = r.response
            /\ invoked' = r.invoked

\* POST /api/ai/analyze-damage
RouteAnalyzeDamage ==
    /\ phase = "idle"
    /\ \E pre \in Imageries, post \in Imageries, draw \in RandomDraws :
        LET r == analyze_damage(pre, post, draw)
        IN  /\ phase' = "done"
            /\ call' = [op |-> "analyze_damage", pre_image |-> pre, post_image |-> post]
            /\ result' = r.response
            /\ invoked' = r.invoked

\* POST /api/ai/detect-fraud
RouteDetectFraud ==
    /\ phase = "idle"
    /\ \E c \in RouteClaims, backend \in FraudBackends :
        LET r == detect_fraud(c, backend)
        IN  /\ phase' = "done"
            /\ call' = [op |-> "detect_fraud", claim |-> c, backend |-> backend]
            /\ result' = r.response
            /\ invoked' = r.invoked

\* POST /api/ai/batch-process
RouteBatchProcess ==
    /\ phase = "idle"
    /\ \E requests \in RequestsValues :
        LET r == batch_process(requests)
        IN  /\ phase' = "done"
            /\ call' = [op |-> "batch_process", requests |-> requests]
            /\ result' = r.response
            /\ invoked' = r.invoked

Next ==
    \/ RouteAnalyzeRisk
    \/ RouteAnalyzeDamage
    \/ RouteDetectFraud
    \/ RouteBatchProcess
    \/ Return

Spec == Init /\ [][Next]_vars

----------------------------------------------------------------------------
(* Properties of FraudDetectionModel.detect_fraud, under SpecFraud *)

FraudCalled == phase = "done" /\ call.op = "FraudDetectionModel.detect_fraud"

\* The analysis cannot complete: the claim is no record, a date is missing or
\* does not parse, an offset-less date meets one with an offset, an optional
\* field is malformed, or the backend raises.
FraudAnalysisFails(c, backend) ==
    \/ c.kind # "dict"
    \/ c.incidentDate.kind \in {"missing", "unparseable"}
    \/ c.reportedDate.kind \in {"missing", "unparseable"}
    \/ c.incidentDate.kind # c.reportedDate.kind
    \/ c.claimAmount.kind = "nan"
    \/ c.documents.kind = "nolen"
    \/ c.satelliteEvidence = "notdict"
    \/ backend.raises

\* C4: whenever fraud analysis cannot complete, detect_fraud returns exactly
\* riskLevel medium, fraudProbability 0.5, riskFactors [analysis_error],
\* flaggedForReview true (so any two failing calls return equal results).
C4_FraudFallback ==
    (FraudCalled /\ FraudAnalysisFails(call.claim, call.backend))
        => result = [riskLevel |-> "medium", fraudProbability |-> 500,
                     riskFactors |-> <<"analysis_error">>, flaggedForReview |-> TRUE]

C4_Witness ==
    /\ FraudCalled
    /\ call.claim.kind = "dict"
    /\ call.claim.incidentDate.kind = "aware"
    /\ call.claim.reportedDate.kind = "aware"
    /\ call.claim.documents.kind = "nolen"
    /\ ~call.backend.raises
    /\ result.riskFactors = <<"analysis_error">>

\* C5: fraudProbability is in [0,1], riskLevel is low, medium or high, and
\* riskLevel is the tier of the fraudProbability reported in the same result
\* (> 0.7 high, else > 0.4 medium, else low).
C5_LevelMatchesReported ==
    FraudCalled =>
        /\ result.fraudProbability \in 0..1000
        /\ result.riskLevel \in {"low", "medium", "high"}
        /\ result.riskLevel =
             (IF result.fraudProbability > 700 THEN "high"
              ELSE IF result.fraudProbability > 400 THEN "medium" ELSE "low")

\* (reportedDate - incidentDate) in whole days clamped to [0, 30], over 30.
ClampedDelay(c) ==
    LET d == DelayDays(c.incidentDate, c.reportedDate)
    IN  Rat(IF d < 0 THEN 0 ELSE IF d > 30 THEN 30 ELSE d, 30)

\* C6: for every pair of parseable timestamps the reporting-delay feature is
\* the delay in days clamped to [0, 30] over 30, so it lies in [0, 1].
C6_DelayFeatureClamped ==
    (/\ FraudCalled
     /\ call.claim.kind = "dict"
     /\ call.claim.incidentDate.kind = "aware"
     /\ call.claim.reportedDate.kind = "aware"
     /\ ~extract_fraud_features(call.claim).raised)
        => LET f == extract_fraud_features(call.claim).features[1]
           IN  /\ RatEq(f, ClampedDelay(call.claim))
               /\ RatLe(Rat(0, 1), f)
               /\ RatLe(f, Rat(1, 1))

\* C7: on a successful analysis riskFactors holds delayed_reporting iff the
\* delay is more than 15 days, high_claim_amount iff claimAmount is more than
\* 80000, insufficient_documentation iff there are fewer than 2 documents,
\* no_satellite_evidence iff the claim carries no pre-disaster satellite
\* imagery, and nothing else, whatever the backend's probability.
C7_RiskFactorsFromClaim ==
    (FraudCalled /\ ~FraudAnalysisFails(call.claim, call.backend))
        => LET c == call.claim
               labels == Range(result.riskFactors)
           IN  /\ "delayed_reporting" \in labels
                    <=> DelayDays(c.incidentDate, c.reportedDate) > 15
               /\ "high_claim_amount" \in labels <=> c.claimAmount.v > 80000
               /\ "insufficient_documentation" \in labels <=> c.documents.n < 2
               /\ "no_satellite_evidence" \in labels <=> c.satelliteEvidence # "pre"
               /\ labels \subseteq {"delayed_reporting", "high_claim_amount",
                                    "insufficient_documentation", "no_satellite_evidence"}
               /\ Len(result.riskFactors) = Cardinality(labels)

C7_Witness ==
    /\ FraudCalled
    /\ call.claim = ExampleClaim
    /\ call.backend = [raises |-> FALSE, p |-> 7004]
    /\ result.riskFactors = <<"insufficient_documentation">>

----------------------------------------------------------------------------
(* Properties of the damage operations, under SpecDamage *)

DamageCalled ==
    /\ phase = "done"
    /\ call.op \in {"DamageDetectionModel.detect_damage", "AIServiceEngine.analyze_damage"}

DamageAnalysisFails(c) == c.pre_image # "ok" \/ c.post_image # "ok" \/ c.backend.raises

\* C8: every damage result has damagePercentage in [0,100], equal to
\* max(0, (post_class_index - pre_class_index) / 5 * 100); it is 0 whenever
\* the post-event class index is at most the pre-event class index.
C8_DamagePercentageFromClasses ==
    DamageCalled =>
        /\ result.damagePercentage \in 0..100
        /\ ~DamageAnalysisFails(call) =>
             LET increase == ArgMax(call.backend.post) - ArgMax(call.backend.pre)
             IN  result.damagePercentage = (IF increase <= 0 THEN 0 ELSE 20 * increase)

\* C9: on any failure of damage analysis (an image missing or unreadable, a
\* backend error) the damage operation, of the analyzer and of the engine,
\* returns damagePercentage 0, damageType [analysis_failed], confidence 0,
\* estimatedLoss 0.
C9_DamageDefaultOnFailure ==
    (DamageCalled /\ DamageAnalysisFails(call)) =>
        /\ result.damagePercentage = 0
        /\ result.damageType = <<"analysis_failed">>
        /\ result.analysisConfidence = 0
        /\ result.estimatedLoss = 0

----------------------------------------------------------------------------
(* Properties of the HTTP service, under Spec *)

BatchCalled == phase = "done" /\ call.op = "batch_process"

KnownTypes == {"risk_analysis", "damage_analysis", "fraud_detection"}

\* A request that is malformed, of unknown type, or whose dispatch raises.
ItemFails(req) ==
    \/ ~req.isDict
    \/ req.type \notin KnownTypes
    \/ req.type = "damage_analysis" /\ req.data.kind = "null"

RemoveAt(q, i) == SubSeq(q, 1, i - 1) \o SubSeq(q, i + 1, Len(q))

\* C1: in every non-empty batch a failing request (unknown type, malformed,
\* raising) gets a failure entry with its id, the batch succeeds, and the
\* other entries are those of the batch without the failing request.
C1_PerItemIsolation ==
    (BatchCalled /\ call.requests.kind = "list" /\ call.requests.items # <<>>) =>
        LET items == call.requests.items
        IN  /\ result.success
            /\ Len(result.data.results) = Len(items)
            /\ \A i \in DOMAIN items :
                 ItemFails(items[i]) =>
                    /\ ~result.data.results[i].success
                    /\ result.data.results[i].id = items[i].id
                    /\ RemoveAt(result.data.results, i)
                         = BatchLoop(RemoveAt(items, i), 1, <<>>, <<>>).results

\* C2: an accepted batch of n requests (one answered with results) holds n
\* results, processed = n, and the i-th result echoes the id and the type of
\* the i-th request.
C2_OrderPreserved ==
    (BatchCalled /\ result.status = 200) =>
        LET items == call.requests.items
            results == result.data.results
        IN  /\ Len(results) = Len(items)
            /\ result.data.processed = Len(items)
            /\ \A i \in DOMAIN items :
                 /\ results[i].id = items[i].id
                 /\ results[i].type = items[i].type

C2_Witness ==
    /\ BatchCalled
    /\ result.status = 200
    /\ Len(call.requests.items) = 3
    /\ call.requests.items[1].id = "A" /\ call.requests.items[1].type = "fraud_detection"
    /\ call.requests.items[2].id = "B" /\ call.requests.items[2].type = "bogus"
    /\ call.requests.items[3].id = "A" /\ call.requests.items[3].type = "risk_analysis"
    /\ result.data.results[1].success
    /\ ~result.data.results[2].success
    /\ result.data.results[3].success

\* C3: the batch call fails iff 'requests' is empty or no sequence; an empty
\* batch is rejected before any analyzer is invoked, and every non-empty
\* sequence ends with overall success and one result per request.
C3_FailsIffInvalid ==
    BatchCalled =>
        LET valid == call.requests.kind = "list" /\ call.requests.items # <<>>
        IN  /\ result.success <=> valid
            /\ ~valid => invoked = <<>>
            /\ valid => Len(result.data.results) = Len(call.requests.items)

\* The image source of a damage request is absent.
NoImageSource(im) == im \in {"missing", "null", "empty", "nourl"}

\* C10: a damage request without its pre-event or post-event image source is
\* rejected before any model is invoked and yields no successful damage
\* result, as a single request and as a damage_analysis request of a batch.
C10_MissingImageRejected ==
    /\ (/\ phase = "done" /\ call.op = "analyze_damage"
        /\ (NoImageSource(call.pre_image) \/ NoImageSource(call.post_image)))
          => (~result.success /\ invoked = <<>>)
    /\ (BatchCalled /\ result.status = 200) =>
          \A i \in DOMAIN call.requests.items :
             LET req == call.requests.items[i]
             IN  (/\ req.type = "damage_analysis"
                  /\ (req.data.preImageUrl = "none" \/ req.data.postImageUrl = "none"))
                    => ~result.data.results[i].success

----------------------------------------------------------------------------
(* Properties of the risk analysis, under SpecRisk *)

RiskCalled == phase = "done" /\ call.op = "AIServiceEngine.analyze_risk"

NumericFields(p) == {p.elevation, p.proximityToWater, p.yearBuilt}

\* The scoring cannot complete: the property is no record, one of its numeric
\* fields holds a value that is no number, or the regression backend raises.
RiskAnalysisFails(p, backend) ==
    \/ p.kind # "dict"
    \/ \E f \in NumericFields(p) : f.kind = "nan"
    \/ backend.raises

Clamped(raw) == IF raw < 0 THEN 0 ELSE IF raw > 100 THEN 100 ELSE raw

\* C11: whatever the property record and whatever raw score the regression
\* backend answers (below 0, in range, above 100), the overallRiskScore of the
\* risk result lies in 0..100: it is the raw score clamped to that range when
\* the scoring completes and the fallback's 50 when it does not.
C11_ScoreInRange ==
    RiskCalled =>
        /\ result.overallRiskScore \in 0..100
        /\ result.overallRiskScore =
             IF RiskAnalysisFails(call.property, call.backend) THEN 50
             ELSE Clamped(call.backend.raw)

\* A raw score above 100 is reported as 100.
C11_Witness ==
    /\ RiskCalled
    /\ ~RiskAnalysisFails(call.property, call.backend)
    /\ call.backend.raw > 100
    /\ result.overallRiskScore = 100

\* A record whose fields are each absent or well typed.
OnlyMissingFields(p) ==
    /\ p.kind = "dict"
    /\ \A f \in NumericFields(p) : f.kind \in {"missing", "num"}

\* C12: when the risk analysis fails (a non-numeric field, a property that is
\* no record, a backend that raises) the operation returns exactly score 50,
\* confidence 0 and no top risk factor; a record with any subset of its fields
\* missing is no failure and gets the computed score with confidence 85.
C12_RiskFallback ==
    RiskCalled =>
        /\ RiskAnalysisFails(call.property, call.backend) =>
             /\ result.overallRiskScore = 50
             /\ result.confidence = 0
             /\ result.topRiskFactors = <<>>
        /\ (OnlyMissingFields(call.property) /\ ~call.backend.raises) =>
             /\ result.confidence = 85
             /\ result.overallRiskScore = Clamped(call.backend.raw)
             /\ result.topRiskFactors # <<>>

\* A record with a non-numeric elevation, with a backend that would answer, is
\* given the fallback.
C12_Witness ==
    /\ RiskCalled
    /\ call.property.kind = "dict"
    /\ call.property.elevation.kind = "nan"
    /\ ~call.backend.raises
    /\ result.overallRiskScore = 50
    /\ result.confidence = 0
    /\ result.topRiskFactors = <<>>

\* The position (from 1) of a name in the table of feature names.
PositionOf(name) == CHOOSE i \in DOMAIN feature_names : feature_names[i] = name

\* The features of a record whose fields are absent or well typed, in the
\* order of the table: four of the property, then the satellite and weather
\* values analyze_risk passes.
FeatureVector(p) ==
    << Rat(IF p.elevation.kind = "num" THEN p.elevation.v ELSE 0, 1000),
       Rat(IF p.proximityToWater.kind = "num" THEN p.proximityToWater.v ELSE 0, 10000),
       Rat(IF p.floodZone = "AE" THEN 1 ELSE 0, 1),
       Rat(IF p.yearBuilt.kind = "num" THEN p.yearBuilt.v ELSE 2000, 2024),
       Rat(7, 10), Rat(4, 10), Rat(6, 10), Rat(1, 2), Rat(6, 10), Rat(15, 100),
       Rat(3, 10), Rat(2, 10), Rat(2, 10), Rat(4, 10), Rat(44, 100) >>

\* C15: for every vector of fifteen importance weights and every feature
\* vector, topRiskFactors of a successful risk result lists exactly the five
\* features of greatest importance, greatest first, none twice, and each entry
\* pairs the name at a position of the table with the importance and the
\* feature value at that same position (both reported to three decimals).
C15_TopFiveFactors ==
    (RiskCalled /\ ~RiskAnalysisFails(call.property, call.backend)) =>
        LET top == result.topRiskFactors
            weight == call.backend.importance
            listed == {PositionOf(top[r].factor) : r \in DOMAIN top}
        IN  /\ Len(weight) = Len(feature_names)
            /\ Len(top) = 5
            /\ \A r \in DOMAIN top : top[r].factor \in Range(feature_names)
            /\ \A r, q \in DOMAIN top : r # q => top[r].factor # top[q].factor
            /\ \A r, q \in DOMAIN top :
                 r < q => weight[PositionOf(top[r].factor)] >= weight[PositionOf(top[q].factor)]
            /\ \A i \in DOMAIN feature_names \ listed : \A j \in listed : weight[i] <= weight[j]
            /\ \A r \in DOMAIN top :
                 LET i == PositionOf(top[r].factor)
                 IN  /\ top[r].importance = Round3(weight[i])
                     /\ top[r].value = RatRound3(FeatureVector(call.property)[i])

\* The weights whose leaders are the last features of the table, two of them
\* tied for the fifth place: avg_temperature leads with its own weight and
\* value, and wind_speed took the fifth place.
C15_Witness ==
    /\ RiskCalled
    /\ call.property = ExampleProperty
    /\ ~call.backend.raises
    /\ call.backend.importance[15] = 2300
    /\ Len(result.topRiskFactors) = 5
    /\ result.topRiskFactors[1] = [factor |-> "avg_temperature", importance |-> 230, value |-> 440]
    /\ result.topRiskFactors[5] = [factor |-> "wind_speed", importance |-> 70, value |-> 150]

----------------------------------------------------------------------------
(* The review flag of a fraud result, under SpecFraud *)

\* C14: in every fraud result flaggedForReview is true exactly when riskLevel
\* is high or the result is the fallback: a completed analysis flags exactly
\* the high-risk claims, and a flagged result of level medium is the fallback
\* of a failed analysis, with riskFactors [analysis_error].
C14_FlaggedIffHighOrFallback ==
    FraudCalled =>
        LET IsFallback ==
                /\ result.riskLevel = "medium"
                /\ result.fraudProbability = 500
                /\ result.riskFactors = <<"analysis_error">>
                /\ result.flaggedForReview
            fails == FraudAnalysisFails(call.claim, call.backend)
        IN  /\ result.flaggedForReview <=> (result.riskLevel = "high" \/ IsFallback)
            /\ ~fails => (result.flaggedForReview <=> result.riskLevel = "high")
            /\ (result.riskLevel = "medium" /\ result.flaggedForReview) =>
                 (fails /\ result.riskFactors = <<"analysis_error">>)

\* A completed analysis of level high is flagged, with the labels of its claim.
C14_Witness ==
    /\ FraudCalled
    /\ ~FraudAnalysisFails(call.claim, call.backend)
    /\ result.riskLevel = "high"
    /\ result.flaggedForReview
    /\ result.riskFactors # <<"analysis_error">>

----------------------------------------------------------------------------
(* The success flag of a batch entry, under Spec *)

\* The analyzer of a risk or fraud request catches its own failure.
ItemFallsBack(req) ==
    \/ req.type = "fraud_detection" /\ FraudAnalysisFails(req.data.claim, req.env.fraud)
    \/ req.type = "risk_analysis" /\ RiskAnalysisFails(req.data.property, req.env.risk)

\* C16: in a batch response an entry's success is false exactly when its
\* result carries an 'error' entry (unknown type, an exception while
\* dispatching); an entry whose analyzer returned its fallback (the fraud
\* default with analysis_error, the risk default with score 50) has success
\* true.
C16_SuccessIffNoError ==
    (BatchCalled /\ result.status = 200) =>
        \A i \in DOMAIN result.data.results :
            LET e == result.data.results[i]
                req == call.requests.items[i]
            IN  /\ ~e.success <=> "error" \in DOMAIN e.result
                /\ ItemFails(req) => "error" \in DOMAIN e.result
                /\ ItemFallsBack(req) =>
                     /\ e.success
                     /\ "error" \notin DOMAIN e.result
                     /\ req.type = "fraud_detection" =>
                          e.result.riskFactors = <<"analysis_error">>
                     /\ req.type = "risk_analysis" =>
                          (e.result.overallRiskScore = 50 /\ e.result.confidence = 0)

\* A batch of a fraud request with an unparseable date, a risk request with a
\* null payload and a request of unknown type: the first two are reported as
\* successes with their fallbacks, the third as a failure.
C16_Witness ==
    /\ BatchCalled
    /\ result.status = 200
    /\ Len(result.data.results) = 3
    /\ call.requests.items[1].type = "fraud_detection"
    /\ result.data.results[1].success
    /\ result.data.results[1].result.riskFactors = <<"analysis_error">>
    /\ call.requests.items[2].type = "risk_analysis"
    /\ result.data.results[2].success
    /\ result.data.results[2].result.overallRiskScore = 50
    /\ result.data.results[2].result.topRiskFactors = <<>>
    /\ call.requests.items[3].type = "bogus"
    /\ ~result.data.results[3].success

----------------------------------------------------------------------------
(* Repeated invocations, under Spec *)

\* Two requests of a batch invoke the same operation on the same input; the
\* read-only backends answer both alike.
SameInvocation(a, b) ==
    /\ a.type = b.type
    /\ a.data = b.data
    /\ a.env.fraud = b.env.fraud
    /\ a.env.risk = b.env.risk

\* C13: an analysis call is pure given the read-only backends: two
\* invocations of the same operation (risk, damage, fraud) on the same input
\* return equal results, whatever ran before them, so the entries of a batch
\* do not depend on the position their requests are processed at.
C13_SameInputSameResult ==
    (BatchCalled /\ result.status = 200) =>
        \A i, j \in DOMAIN result.data.results :
            SameInvocation(call.requests.items[i], call.requests.items[j])
                => result.data.results[i].result = result.data.results[j].result

====
